---- MODULE Spec2Model ----
(***************************************************************************)
(* The kanban board of the three TaskDragMaster prototypes:                *)
(*   "modal"      src/prototypes/taskmaster/src/App.jsx                    *)
(*   "simplified" src/prototypes/taskdragmaster/src/App.jsx                *)
(*   "pro"        src/unnamed/part_000                                     *)
(* The state is the React state of App (board, editing, modalOpen), the    *)
(* operations are its event handlers.  Every handler reads the board of    *)
(* the current render and replaces it wholesale with setBoard.             *)
(***************************************************************************)
EXTENDS Integers, Sequences, FiniteSets, TLC

\* ---------------------------------------------------------------- bounds
MaxTasks == 3
MaxLen == 4
MaxTime == 1
MaxSteps == 6
MaxCalls == 4
MaxStore == 3
MaxTabs == 4

\* ------------------------------------------------------------- constants
Protos == {"modal", "simplified", "pro"}
DEFAULT_COLUMNS == <<"todo", "inprogress", "done">>
Columns == {DEFAULT_COLUMNS[i] : i \in 1..Len(DEFAULT_COLUMNS)}
\* JavaScript's undefined, also the property key "undefined" it turns into
UNDEF == "undefined"
\* over = null of a cancelled drop
NULL == "null"
\* the values uuidv4() hands out, in the order it hands them out
AllIds == <<"t1", "t2", "t3", "t4", "t5", "t6">>
\* an id that is never a task of the board
GhostId == "ghost"
NoTime == -1
PRIORITIES == <<"low", "medium", "high">>
\* a field of the modal the user leaves as the modal filled it in
UNTOUCHED == "untouched"
\* Object.keys order of board.order: the columns, then a key added later
KeyOrder == DEFAULT_COLUMNS \o <<UNDEF>>

VARIABLES proto, board, editing, modalOpen, nextId, now, steps, last, prev,
          rendered, stored, dirty, tab2, app

\* what lies around the board of one tab: the board its handlers closed over at
\* the last render, localStorage, the pending save effect, a second tab, and
\* whether the component tree is still mounted
env == <<rendered, stored, dirty, tab2, app>>

vars == <<proto, board, editing, modalOpen, nextId, now, steps, last, prev,
          rendered, stored, dirty, tab2, app>>

\* ------------------------------------------------------- array helpers
Max(a, b) == IF a > b THEN a ELSE b
Min(a, b) == IF a < b THEN a ELSE b

\* Array.prototype.indexOf: 0-based index of the first occurrence, or -1
IndexOf(s, x) ==
  IF \E i \in 1..Len(s) : s[i] = x
  THEN (CHOOSE i \in 1..Len(s) : s[i] = x /\ \A j \in 1..(i - 1) : s[j] # x) - 1
  ELSE -1

Includes(s, x) == \E i \in 1..Len(s) : s[i] = x

\* arr.filter(y => y !== x)
Without(s, x) == SelectSeq(s, LAMBDA y : y # x)

\* the start index Array.prototype.splice really uses
SpliceStart(s, start) ==
  IF start < 0 THEN Max(Len(s) + start, 0) ELSE Min(start, Len(s))

\* arr.splice(start, 1)
SpliceRemove(s, start) ==
  LET k == SpliceStart(s, start)
  IN  IF k >= Len(s) THEN s
      ELSE SubSeq(s, 1, k) \o SubSeq(s, k + 2, Len(s))

\* arr.splice(start, 0, x)
SpliceInsert(s, start, x) ==
  LET k == SpliceStart(s, start)
  IN  SubSeq(s, 1, k) \o <<x>> \o SubSeq(s, k + 1, Len(s))

\* { ...obj, [k]: v }
Put(f, k, v) == [x \in (DOMAIN f) \cup {k} |-> IF x = k THEN v ELSE f[x]]

\* delete obj[k]
Remove(f, k) == [x \in (DOMAIN f) \ {k} |-> f[x]]

\* ------------------------------------------------------------ the board
\* {} : an object none of whose fields is set
EmptyTask ==
  [id |-> UNDEF, title |-> UNDEF, description |-> UNDEF, priority |-> UNDEF,
   columnId |-> UNDEF, createdAt |-> NoTime, updatedAt |-> NoTime]

emptyBoard(t) ==
  [tasks |-> [x \in {} |-> EmptyTask],
   order |-> [c \in Columns |-> <<>>],
   ts    |-> t]

\* board.tasks[id], undefined read as an object without fields
TaskOr(b, id) == IF id \in DOMAIN b.tasks THEN b.tasks[id] ELSE EmptyTask

\* board.order[c] || []
OrderOf(b, c) == IF c \in DOMAIN b.order THEN b.order[c] ELSE <<>>

NoEditing == [null |-> TRUE, task |-> EmptyTask]
\* nothing typed into the modal
NoTyped == [title |-> UNTOUCHED, description |-> UNTOUCHED, priority |-> UNTOUCHED]
NoEvent == [op |-> "init", id |-> UNDEF, over |-> UNDEF, typed |-> NoTyped]

\* localStorage.getItem(STORAGE_KEY) === null; what is stored is a kind of text,
\* and for text that is the JSON of a board, that board
NoPayload == [kind |-> "absent", board |-> emptyBoard(NoTime)]
\* no second tab is open
NoTab == [open |-> FALSE, board |-> emptyBoard(NoTime), dirty |-> FALSE]

Init ==
  /\ proto \in Protos
  /\ now = 0
  /\ board = emptyBoard(0)
  /\ editing = NoEditing
  /\ modalOpen = FALSE
  /\ nextId = 1
  /\ steps = 0
  /\ last = NoEvent
  /\ prev = board
  /\ rendered = board
  /\ stored = NoPayload
  /\ dirty = FALSE
  /\ tab2 = NoTab
  /\ app = "running"

\* ------------------------------------------------------------ handlers
\* const fromColId = board.tasks[active.id]?.columnId
ColumnIdOf(b, id) == TaskOr(b, id).columnId

\* the moved task's record with only updatedAt touched, columnId left as it was
MovedTasksKeepColumn(b, active, toCol, t) ==
  Put(b.tasks, active, [TaskOr(b, active) EXCEPT !.updatedAt = t])

\* the move stamps updatedAt on every task record, not only on the moved one
MovedTasksTouchAll(b, active, toCol, t) ==
  [id \in (DOMAIN b.tasks) \cup {active} |->
     IF id = active THEN [TaskOr(b, active) EXCEPT !.columnId = toCol, !.updatedAt = t]
     ELSE [b.tasks[id] EXCEPT !.updatedAt = t]]

\* { ...board.tasks, [active.id]: { ...board.tasks[active.id], columnId, updatedAt } }
MovedTasks(b, active, toCol, t) ==
  Put(b.tasks, active, [TaskOr(b, active) EXCEPT !.columnId = toCol, !.updatedAt = t])

\* { ...board.order, [fromColId]: fromOrder, [toColId]: toOrder }
MovedOrder(b, fromCol, fromOrder, toCol, toOrder) ==
  Put(Put(b.order, fromCol, fromOrder), toCol, toOrder)

\* handleDragEnd of the modal prototype, over # null
handleDragEndModal(b, active, over, t) ==
  LET fromColId == ColumnIdOf(b, active)
      toColId   == IF over \in DOMAIN b.order THEN over
                   ELSE IF over \in DOMAIN b.tasks THEN b.tasks[over].columnId
                   ELSE fromColId
      fromOrder == Without(OrderOf(b, fromColId), active)
      toOrder0  == OrderOf(b, toColId)
      idx       == IndexOf(toOrder0, over)
      toOrder   == IF over \in DOMAIN b.tasks /\ b.tasks[over].id # active
                   THEN IF idx = -1 THEN Append(toOrder0, active)
                        ELSE SpliceInsert(toOrder0, idx, active)
                   ELSE Append(toOrder0, active)
  IN  [tasks |-> MovedTasks(b, active, toColId, t),
       order |-> MovedOrder(b, fromColId, fromOrder, toColId, toOrder),
       ts    |-> t]

\* handleDragEnd of the simplified prototype, over # null
handleDragEndSimplified(b, active, over, t) ==
  LET fromColId == ColumnIdOf(b, active)
      toColId   == IF over \in DOMAIN b.order THEN over ELSE fromColId
      fromOrder0 == OrderOf(b, fromColId)
      toOrder0  == OrderOf(b, toColId)
      fromIdx   == IndexOf(fromOrder0, active)
      fromOrder == IF fromIdx # -1 THEN SpliceRemove(fromOrder0, fromIdx) ELSE fromOrder0
      overIndex == IndexOf(toOrder0, over)
      toOrder   == IF overIndex = -1 THEN Append(toOrder0, active)
                   ELSE SpliceInsert(toOrder0, overIndex, active)
  IN  [tasks |-> MovedTasks(b, active, toColId, t),
       order |-> MovedOrder(b, fromColId, fromOrder, toColId, toOrder),
       ts    |-> t]

\* Object.keys(board.order).find(col => (board.order[col]||[]).includes(activeId))
FindSourceCol(b, activeId) ==
  LET hits == {i \in 1..Len(KeyOrder) :
                 KeyOrder[i] \in DOMAIN b.order /\ Includes(b.order[KeyOrder[i]], activeId)}
  IN  IF hits = {} THEN UNDEF
      ELSE KeyOrder[CHOOSE i \in hits : \A j \in hits : i <= j]

\* handleDragEnd of the Pro prototype, over # null (columnId is its status field)
handleDragEndPro(b, activeId, overId, t) ==
  LET sourceCol   == FindSourceCol(b, activeId)
      destCol     == IF overId \in DOMAIN b.order THEN overId
                     ELSE IF overId \in DOMAIN b.tasks THEN b.tasks[overId].columnId
                     ELSE sourceCol
      sourceOrder == Without(OrderOf(b, sourceCol), activeId)
      destOrder0  == OrderOf(b, destCol)
      oldIndex    == IndexOf(OrderOf(b, sourceCol), activeId)
      newIndex    == IndexOf(destOrder0, overId)
      destOrder   == IF sourceCol = destCol /\ overId \in DOMAIN b.tasks
                     THEN SpliceInsert(SpliceRemove(destOrder0, oldIndex), newIndex, activeId)
                     ELSE IF overId \in DOMAIN b.tasks
                          THEN IF newIndex = -1 THEN Append(destOrder0, activeId)
                               ELSE SpliceInsert(destOrder0, newIndex, activeId)
                          ELSE Append(destOrder0, activeId)
  IN  [tasks |-> MovedTasks(b, activeId, destCol, t),
       order |-> MovedOrder(b, sourceCol, sourceOrder, destCol, destOrder),
       ts    |-> t]

\* handleDragEnd without its first line: a cancelled drop runs the algorithm too
handleDragEndNoNullCheck(p, b, active, over, t) ==
  IF p = "modal" THEN handleDragEndModal(b, active, over, t)
  ELSE IF p = "simplified" THEN handleDragEndSimplified(b, active, over, t)
  ELSE handleDragEndPro(b, active, over, t)

\* handleDragEnd: if (!over) return; else the prototype's algorithm
handleDragEnd(p, b, active, over, t) ==
  IF over = NULL THEN b
  ELSE IF p = "modal" THEN handleDragEndModal(b, active, over, t)
  ELSE IF p = "simplified" THEN handleDragEndSimplified(b, active, over, t)
  ELSE handleDragEndPro(b, active, over, t)

\* String.prototype.trim on the strings the model types
Trim(str) ==
  IF str = " " THEN ""
  ELSE IF str = " a " THEN "a"
  ELSE IF str = " d " THEN "d"
  ELSE str

\* v || dflt for a string v
OrElse(v, dflt) == IF v = UNDEF \/ v = "" THEN dflt ELSE v

\* the fields of TaskModal as the open effect fills them in from `initial`
Prefill(initial) ==
  [title       |-> OrElse(IF initial.null THEN UNDEF ELSE initial.task.title, ""),
   description |-> OrElse(IF initial.null THEN UNDEF ELSE initial.task.description, ""),
   priority    |-> OrElse(IF initial.null THEN UNDEF ELSE initial.task.priority, "medium")]

\* the fields of TaskModal after the user typed `typed` over them
FormAfter(initial, typed) ==
  LET pre == Prefill(initial)
  IN  [title       |-> IF typed.title = UNTOUCHED THEN pre.title ELSE typed.title,
       description |-> IF typed.description = UNTOUCHED THEN pre.description ELSE typed.description,
       priority    |-> IF typed.priority = UNTOUCHED THEN pre.priority ELSE typed.priority]

\* what the user of the board model types: a title, the rest as filled in
UsualTyped == {[title |-> " a ", description |-> UNTOUCHED, priority |-> UNTOUCHED]}

\* what the user of the form model may type
FormTyped ==
  {[title |-> ti, description |-> de, priority |-> pr] :
     ti \in {UNTOUCHED, " ", " a "}, de \in {UNTOUCHED, " d "}, pr \in {UNTOUCHED, "high"}}

\* the partial handed to newTask by addTask: {}
NoPartial == [title |-> UNDEF, description |-> UNDEF, priority |-> UNDEF]

\* !title.trim() with the title as a mere blank check, skipping the trim
titleMissingUntrimmed(form) == form.title = ""

\* TaskModal.submit: !title.trim()
titleMissing(form) == Trim(form.title) = ""

\* TaskModal.submit: the object handed to onSave, built from the snapshot
\* `initial` and the fields of the form
SubmittedTask(initial, form) ==
  [id          |-> IF initial.null THEN UNDEF ELSE initial.task.id,
   title       |-> Trim(form.title),
   description |-> Trim(form.description),
   priority    |-> form.priority,
   columnId    |-> IF initial.null \/ initial.task.columnId = UNDEF THEN "todo"
                   ELSE initial.task.columnId]

\* saveTask putting a new task at the end of To do
saveTaskAtTail(b, taskPartial, fresh, t) ==
  LET isEdit == taskPartial.id # UNDEF /\ taskPartial.id \in DOMAIN b.tasks
      id     == IF taskPartial.id # UNDEF THEN taskPartial.id ELSE fresh
      old    == TaskOr(b, id)
      task   == [id          |-> id,
                 title       |-> taskPartial.title,
                 description |-> taskPartial.description,
                 priority    |-> taskPartial.priority,
                 columnId    |-> taskPartial.columnId,
                 updatedAt |-> t,
                 createdAt |-> IF old.createdAt # NoTime THEN old.createdAt ELSE t]
  IN  [tasks |-> Put(b.tasks, id, task),
       order |-> IF isEdit THEN b.order
                 ELSE Put(b.order, "todo", OrderOf(b, "todo") \o <<id>>),
       ts    |-> t]

\* saveTask of the modal and Pro prototypes; fresh is the value uuidv4() would return
saveTask(b, taskPartial, fresh, t) ==
  LET isEdit == taskPartial.id # UNDEF /\ taskPartial.id \in DOMAIN b.tasks
      id     == IF taskPartial.id # UNDEF THEN taskPartial.id ELSE fresh
      old    == TaskOr(b, id)
      task   == [id          |-> id,
                 title       |-> taskPartial.title,
                 description |-> taskPartial.description,
                 priority    |-> taskPartial.priority,
                 columnId    |-> taskPartial.columnId,
                 updatedAt |-> t,
                 createdAt |-> IF old.createdAt # NoTime THEN old.createdAt ELSE t]
  IN  [tasks |-> Put(b.tasks, id, task),
       order |-> IF isEdit THEN b.order
                 ELSE Put(b.order, "todo", <<id>> \o OrderOf(b, "todo")),
       ts    |-> t]

\* newTask({}) of the simplified prototype
newTask(fresh, t) ==
  [id |-> fresh, title |-> OrElse(NoPartial.title, "New task"),
   description |-> OrElse(NoPartial.description, ""),
   priority |-> OrElse(NoPartial.priority, "medium"),
   columnId |-> OrElse(UNDEF, DEFAULT_COLUMNS[1]),
   createdAt |-> t, updatedAt |-> t]

\* addTask of the simplified prototype
addTask(b, fresh, t) ==
  LET tk    == newTask(fresh, t)
      colId == tk.columnId
  IN  [tasks |-> Put(b.tasks, tk.id, tk),
       order |-> Put(b.order, colId, <<tk.id>> \o OrderOf(b, colId)),
       ts    |-> t]

\* deleteTask of the modal and simplified prototypes, once confirmed
deleteTaskByColumn(b, id, t) ==
  LET colId     == b.tasks[id].columnId
      nextOrder == Without(OrderOf(b, colId), id)
  IN  [tasks |-> Remove(b.tasks, id),
       order |-> Put(b.order, colId, nextOrder),
       ts    |-> t]

\* deleteTask of the Pro prototype, once confirmed
deleteTaskPro(b, id, t) ==
  [tasks |-> Remove(b.tasks, id),
   order |-> [k \in DOMAIN b.order |-> Without(b.order[k], id)],
   ts    |-> t]

\* deleteTask without if (!t) return: a missing id still produces a new board
deleteTaskNoMissingCheck(p, b, id, confirmed, t) ==
  IF ~confirmed THEN b
  ELSE IF id \notin DOMAIN b.tasks THEN [b EXCEPT !.ts = t]
  ELSE IF p = "pro" THEN deleteTaskPro(b, id, t)
  ELSE deleteTaskByColumn(b, id, t)

\* deleteTask: if (!t) return; confirmed is the answer of confirm()
deleteTask(p, b, id, confirmed, t) ==
  IF id \notin DOMAIN b.tasks \/ ~confirmed THEN b
  ELSE IF p = "pro" THEN deleteTaskPro(b, id, t)
  ELSE deleteTaskByColumn(b, id, t)

\* the cards on screen: tasksByColumn / tasksByCol
Rendered(b) ==
  {id \in DOMAIN b.tasks :
     \E c \in Columns : c \in DOMAIN b.order /\ Includes(b.order[c], id)}

\* the ids useDroppable / useSortable register: the columns, and in Pro the cards
Droppables(p, b) == IF p = "pro" THEN Columns \cup Rendered(b) ELSE Columns

\* ------------------------------------------------------------- actions
\* the order lists stay within the model's bound
Bounded(b) == \A k \in DOMAIN b.order : Len(b.order[k]) <= MaxLen

\* one more event handled; last and prev remember it and the board it found
RecordEvent(op, id, over, typed, limit) ==
  /\ steps < limit
  /\ steps' = steps + 1
  /\ last' = [op |-> op, id |-> id, over |-> over, typed |-> typed]
  /\ prev' = board

Record(op, id, over, limit) == RecordEvent(op, id, over, NoTyped, limit)

\* the wall clock behind nowIso() advances
Tick ==
  /\ now < MaxTime
  /\ now' = now + 1
  /\ UNCHANGED <<proto, board, editing, modalOpen, nextId, steps, last, prev>>
  /\ UNCHANGED env

OpenNew ==
  /\ proto # "simplified"
  /\ editing' = NoEditing
  /\ modalOpen' = TRUE
  /\ Record("openNew", UNDEF, UNDEF, MaxSteps)
  /\ UNCHANGED <<proto, board, nextId, now>>
  /\ UNCHANGED env

OpenEdit ==
  /\ proto # "simplified"
  /\ \E id \in Rendered(board) :
       /\ editing' = [null |-> FALSE, task |-> board.tasks[id]]
       /\ Record("openEdit", id, UNDEF, MaxSteps)
  /\ modalOpen' = TRUE
  /\ UNCHANGED <<proto, board, nextId, now>>
  /\ UNCHANGED env

CloseModal ==
  /\ modalOpen
  /\ modalOpen' = FALSE
  /\ Record("close", UNDEF, UNDEF, MaxSteps)
  /\ UNCHANGED <<proto, board, editing, nextId, now>>
  /\ UNCHANGED env

\* TaskModal.submit after the user typed `typed`: an empty title is refused with
\* an alert, anything else goes to onSave(task); onClose()
SubmitTyped(typed, limit) ==
  /\ LET form == FormAfter(editing, typed)
         p    == SubmittedTask(editing, form)
     IN  IF titleMissing(form)
         THEN /\ RecordEvent("rejected", p.id, UNDEF, typed, limit)
              /\ UNCHANGED <<board, nextId, modalOpen>>
         ELSE /\ p.id = UNDEF => nextId <= MaxTasks
              /\ board' = saveTask(board, p, AllIds[nextId], now)
              /\ nextId' = IF p.id = UNDEF THEN nextId + 1 ELSE nextId
              /\ RecordEvent(IF p.id = UNDEF THEN "create" ELSE "save",
                             IF p.id = UNDEF THEN AllIds[nextId] ELSE p.id, UNDEF, typed, limit)
              /\ modalOpen' = FALSE
  /\ Bounded(board')
  /\ UNCHANGED <<proto, editing, now>>
  /\ UNCHANGED env

Submit ==
  /\ modalOpen
  /\ \E typed \in UsualTyped : SubmitTyped(typed, MaxSteps)

AddTask ==
  /\ proto = "simplified"
  /\ nextId <= MaxTasks
  /\ board' = addTask(board, AllIds[nextId], now)
  /\ Bounded(board')
  /\ nextId' = nextId + 1
  /\ RecordEvent("create", AllIds[nextId], UNDEF, NoPartial, MaxSteps)
  /\ UNCHANGED <<proto, editing, modalOpen, now>>
  /\ UNCHANGED env

\* the Delete control of a card on screen
DeleteTask ==
  /\ \E id \in Rendered(board), confirmed \in BOOLEAN :
       /\ proto = "simplified" => confirmed
       /\ board' = deleteTask(proto, board, id, confirmed, now)
       /\ Record(IF confirmed THEN "delete" ELSE "deleteDeclined", id, UNDEF, MaxSteps)
  /\ UNCHANGED <<proto, editing, modalOpen, nextId, now>>
  /\ UNCHANGED env

\* onDragEnd as dnd-kit delivers it: a card on screen, released over a droppable or nowhere
DragEnd ==
  /\ \E active \in Rendered(board), over \in Droppables(proto, board) \cup {NULL} :
       /\ board' = handleDragEnd(proto, board, active, over, now)
       /\ Record("drag", active, over, MaxSteps)
  /\ Bounded(board')
  /\ UNCHANGED <<proto, editing, modalOpen, nextId, now>>
  /\ UNCHANGED env

Next == Tick \/ OpenNew \/ OpenEdit \/ CloseModal \/ Submit \/ AddTask \/ DeleteTask \/ DragEnd

Spec == Init /\ [][Next]_vars

\* --------------------------------------------- handlers called directly
\* handleDragEnd called with any active id and any over id, known to the board or not
DragEndCall ==
  /\ \E active \in DOMAIN board.tasks \cup {GhostId},
        over \in Columns \cup DOMAIN board.tasks \cup {GhostId, NULL} :
       /\ board' = handleDragEnd(proto, board, active, over, now)
       /\ Record("drag", active, over, MaxCalls)
  /\ Bounded(board')
  /\ UNCHANGED <<proto, editing, modalOpen, nextId, now>>
  /\ UNCHANGED env

\* deleteTask called with any id, known to the board or not
DeleteTaskCall ==
  /\ \E id \in DOMAIN board.tasks \cup {GhostId}, confirmed \in BOOLEAN :
       /\ proto = "simplified" => confirmed
       /\ board' = deleteTask(proto, board, id, confirmed, now)
       /\ Record(IF confirmed THEN "delete" ELSE "deleteDeclined", id, UNDEF, MaxCalls)
  /\ UNCHANGED <<proto, editing, modalOpen, nextId, now>>
  /\ UNCHANGED env

\* saveTask called as the modal would call it, without the modal in between:
\* for a new task, or for a task of the board as the board has it now
SaveTaskCall ==
  /\ proto # "simplified"
  /\ \E initial \in {NoEditing} \cup {[null |-> FALSE, task |-> board.tasks[id]] : id \in DOMAIN board.tasks} :
       \E typed \in UsualTyped :
       LET p == SubmittedTask(initial, FormAfter(initial, typed))
       IN  /\ p.id = UNDEF => nextId <= MaxTasks
           /\ board' = saveTask(board, p, AllIds[nextId], now)
           /\ nextId' = IF p.id = UNDEF THEN nextId + 1 ELSE nextId
           /\ RecordEvent(IF p.id = UNDEF THEN "create" ELSE "save",
                          IF p.id = UNDEF THEN AllIds[nextId] ELSE p.id, UNDEF, typed, MaxCalls)
  /\ Bounded(board')
  /\ UNCHANGED <<proto, editing, modalOpen, now>>
  /\ UNCHANGED env

\* addTask called directly
AddTaskCall ==
  /\ proto = "simplified"
  /\ nextId <= MaxTasks
  /\ board' = addTask(board, AllIds[nextId], now)
  /\ Bounded(board')
  /\ nextId' = nextId + 1
  /\ RecordEvent("create", AllIds[nextId], UNDEF, NoPartial, MaxCalls)
  /\ UNCHANGED <<proto, editing, modalOpen, now>>
  /\ UNCHANGED env

NextHandlers == Tick \/ SaveTaskCall \/ AddTaskCall \/ DeleteTaskCall \/ DragEndCall

SpecHandlers == Init /\ [][NextHandlers]_vars

\* --------------------------------------------- the modal with anything typed
\* TaskModal.submit with any of the inputs of FormTyped in the fields
SubmitForm ==
  /\ modalOpen
  /\ \E typed \in FormTyped : SubmitTyped(typed, MaxSteps)

NextForm == Tick \/ OpenNew \/ OpenEdit \/ CloseModal \/ SubmitForm \/ AddTask \/ DeleteTask

SpecForm == Init /\ [][NextForm]_vars

\* --------------------------------------------- handlers and the render they close over
\* Every handler is a closure of the render that created it: the `board` it reads
\* is the board of that render (rendered), and setBoard(next) replaces the state
\* with a board computed from it. React renders again some time after setBoard.
RenderCommit ==
  /\ rendered # board
  /\ rendered' = board
  /\ UNCHANGED <<proto, board, editing, modalOpen, nextId, now, steps, last, prev>>
  /\ UNCHANGED <<stored, dirty, tab2, app>>

\* the create of each prototype, run by the handler of the last render; the
\* modal that calls saveTask is mounted by a render of its own
CreateOnRender ==
  /\ nextId <= MaxTasks
  /\ proto # "simplified" => rendered = board
  /\ \E typed \in UsualTyped :
       /\ board' = IF proto = "simplified"
                   THEN addTask(rendered, AllIds[nextId], now)
                   ELSE saveTask(rendered, SubmittedTask(NoEditing, FormAfter(NoEditing, typed)),
                                 AllIds[nextId], now)
       /\ RecordEvent("create", AllIds[nextId], UNDEF,
                      IF proto = "simplified" THEN NoPartial ELSE typed, MaxSteps)
  /\ Bounded(board')
  /\ nextId' = nextId + 1
  /\ UNCHANGED <<proto, editing, modalOpen, now>>
  /\ UNCHANGED <<rendered, stored, dirty, tab2, app>>

\* the Delete control of a card of the last render, confirmed
DeleteOnRender ==
  /\ \E id \in Rendered(rendered) :
       /\ board' = deleteTask(proto, rendered, id, TRUE, now)
       /\ Record("delete", id, UNDEF, MaxSteps)
  /\ UNCHANGED <<proto, editing, modalOpen, nextId, now>>
  /\ UNCHANGED <<rendered, stored, dirty, tab2, app>>

\* a card of the last render dropped on another column
DragOnRender ==
  /\ \E active \in Rendered(rendered) :
       \E over \in Columns \ {rendered.tasks[active].columnId} :
         /\ board' = handleDragEnd(proto, rendered, active, over, now)
         /\ Record("drag", active, over, MaxSteps)
  /\ Bounded(board')
  /\ UNCHANGED <<proto, editing, modalOpen, nextId, now>>
  /\ UNCHANGED <<rendered, stored, dirty, tab2, app>>

NextRender == Tick \/ RenderCommit \/ CreateOnRender \/ DeleteOnRender \/ DragOnRender

SpecRender == Init /\ [][NextRender]_vars

\* --------------------------------------------- localStorage
\* What localStorage holds under STORAGE_KEY, by what loadStore makes of it:
\* nothing, the empty string, text that is not JSON, JSON of a falsy value (null,
\* false, 0), JSON of a truthy value without columns, tasks and order ({}, [],
\* 42), or the JSON of a board.
PayloadKinds == {"absent", "empty", "garbage", "falsy", "shapeless", "board"}
InvalidKinds == PayloadKinds \ {"board"}

\* the value JSON.parse gives for JSON of kind "shapeless", read as a board:
\* no column, no task, no order list, no ts
Shapeless == [tasks |-> [x \in {} |-> EmptyTask], order |-> [c \in {} |-> <<>>], ts |-> NoTime]

\* saveStore / saveBoard writing a board without its order lists
saveStoreNoOrder(state) ==
  [kind |-> "board", board |-> [state EXCEPT !.order = [c \in Columns |-> <<>>]]]

\* saveStore / saveBoard: localStorage.setItem(STORAGE_KEY, JSON.stringify(state));
\* every field of a board is a string, an array or an object of such, which
\* JSON.stringify writes out and JSON.parse reads back
saveStore(state) == [kind |-> "board", board |-> state]

\* loadStore / loadBoard: null for no text and for text JSON.parse throws on,
\* else whatever JSON.parse returns
loadStore(payload) ==
  IF payload.kind \in {"absent", "empty"} THEN [tag |-> "null", value |-> Shapeless]
  ELSE IF payload.kind = "garbage" THEN [tag |-> "null", value |-> Shapeless]
  ELSE IF payload.kind = "falsy" THEN [tag |-> "falsy", value |-> Shapeless]
  ELSE IF payload.kind = "shapeless" THEN [tag |-> "object", value |-> Shapeless]
  ELSE [tag |-> "object", value |-> payload.board]

\* useState(() => loadStore() || emptyBoard())
InitialBoard(payload, t) ==
  LET loaded == loadStore(payload)
  IN  IF loaded.tag \in {"null", "falsy"} THEN emptyBoard(t) ELSE loaded.value

\* the first render: tasksByColumn iterates board.columns and Pro's allTags
\* calls Object.values(board.tasks); both throw on a value without them
RenderThrows(b) == b = Shapeless

\* a board an earlier session saved with one task in To do
OneTaskBoard(p) ==
  IF p = "simplified" THEN addTask(emptyBoard(0), AllIds[1], 0)
  ELSE saveTask(emptyBoard(0),
                SubmittedTask(NoEditing, FormAfter(NoEditing, CHOOSE typed \in UsualTyped : TRUE)),
                AllIds[1], 0)

\* what the storage may hold when the page is opened
InitialPayloads(p) ==
  {[kind |-> k, board |-> emptyBoard(NoTime)] : k \in InvalidKinds}
    \cup {saveStore(emptyBoard(0)), saveStore(OneTaskBoard(p))}

\* the page opened on some storage: the board is loaded, the first render is
\* attempted and, if it commits, the save effect of the mount is pending
InitStore ==
  /\ proto \in Protos
  /\ now = 0
  /\ stored \in InitialPayloads(proto)
  /\ board = InitialBoard(stored, now)
  /\ app = IF RenderThrows(board) THEN "crashed" ELSE "running"
  /\ dirty = (app = "running")
  /\ rendered = board
  /\ editing = NoEditing
  /\ modalOpen = FALSE
  /\ nextId = 1 + Cardinality(DOMAIN board.tasks)
  /\ steps = 0
  /\ last = [op |-> "init", id |-> UNDEF, over |-> stored.kind, typed |-> NoTyped]
  /\ prev = board
  /\ tab2 = NoTab

\* useEffect(() => { saveStore(board); }, [board]) after a commit with a new board
SaveEffect ==
  /\ app = "running"
  /\ dirty
  /\ stored' = saveStore(board)
  /\ dirty' = FALSE
  /\ UNCHANGED <<proto, board, editing, modalOpen, nextId, now, steps, last, prev>>
  /\ UNCHANGED <<rendered, tab2, app>>

\* deleteTask reaches its setBoard
deleteSetsBoard(b, id, confirmed) == id \in DOMAIN b.tasks /\ confirmed

\* handleDragEnd reaches its setBoard
dragSetsBoard(over) == over # NULL

\* a create of the running page; setBoard leaves the save effect pending
StoreCreate ==
  /\ app = "running"
  /\ nextId <= MaxTasks
  /\ \E typed \in UsualTyped :
       /\ board' = IF proto = "simplified"
                   THEN addTask(board, AllIds[nextId], now)
                   ELSE saveTask(board, SubmittedTask(NoEditing, FormAfter(NoEditing, typed)),
                                 AllIds[nextId], now)
       /\ RecordEvent("create", AllIds[nextId], UNDEF,
                      IF proto = "simplified" THEN NoPartial ELSE typed, MaxStore)
  /\ Bounded(board')
  /\ nextId' = nextId + 1
  /\ dirty' = TRUE
  /\ UNCHANGED <<proto, editing, modalOpen, now>>
  /\ UNCHANGED <<rendered, stored, tab2, app>>

\* deleteTask of the running page, for a card on screen or an id the board lacks
StoreDelete ==
  /\ app = "running"
  /\ \E id \in Rendered(board) \cup {GhostId}, confirmed \in BOOLEAN :
       /\ proto = "simplified" => confirmed
       /\ board' = deleteTask(proto, board, id, confirmed, now)
       /\ dirty' = (dirty \/ deleteSetsBoard(board, id, confirmed))
       /\ Record(IF confirmed THEN "delete" ELSE "deleteDeclined", id, UNDEF, MaxStore)
  /\ UNCHANGED <<proto, editing, modalOpen, nextId, now>>
  /\ UNCHANGED <<rendered, stored, tab2, app>>

\* onDragEnd of the running page: a card dropped on a column or nowhere
StoreDrag ==
  /\ app = "running"
  /\ \E active \in Rendered(board), over \in Columns \cup {NULL} :
       /\ board' = handleDragEnd(proto, board, active, over, now)
       /\ dirty' = (dirty \/ dragSetsBoard(over))
       /\ Record("drag", active, over, MaxStore)
  /\ Bounded(board')
  /\ UNCHANGED <<proto, editing, modalOpen, nextId, now>>
  /\ UNCHANGED <<rendered, stored, tab2, app>>

NextStore == SaveEffect \/ StoreCreate \/ StoreDelete \/ StoreDrag

SpecStore == InitStore /\ [][NextStore]_vars

\* React runs the effect of every commit
SpecStoreLive == SpecStore /\ WF_vars(SaveEffect)

\* --------------------------------------------- two tabs of the simplified prototype
\* Each tab is its own App with its own board state; the tabs share localStorage
\* and nothing else: the file declares CHANNEL_NAME but opens no
\* BroadcastChannel and listens to no storage event.  Tab 1 is board and dirty,
\* tab 2 is tab2.
InitTabs ==
  /\ proto = "simplified"
  /\ now = 0
  /\ stored = NoPayload
  /\ board = InitialBoard(stored, now)
  /\ dirty = TRUE
  /\ tab2 = NoTab
  /\ app = "running"
  /\ rendered = board
  /\ editing = NoEditing
  /\ modalOpen = FALSE
  /\ nextId = 1
  /\ steps = 0
  /\ last = NoEvent
  /\ prev = board

Tabs == {1, 2}
TabIsOpen(i) == i = 1 \/ tab2.open
TabBoard(i) == IF i = 1 THEN board ELSE tab2.board
TabDirty(i) == IF i = 1 THEN dirty ELSE tab2.dirty

\* setBoard(next) in tab i: the tab's state is replaced, its save effect pends
SetTabBoard(i, next) ==
  IF i = 1
  THEN board' = next /\ dirty' = TRUE /\ UNCHANGED tab2
  ELSE tab2' = [open |-> TRUE, board |-> next, dirty |-> TRUE] /\ UNCHANGED <<board, dirty>>

\* the second tab is opened: useState(() => loadStore() || emptyBoard())
OpenTab2 ==
  /\ ~tab2.open
  /\ tab2' = [open |-> TRUE, board |-> InitialBoard(stored, now), dirty |-> TRUE]
  /\ Record("openTab", UNDEF, UNDEF, MaxTabs)
  /\ UNCHANGED <<proto, board, editing, modalOpen, nextId, now>>
  /\ UNCHANGED <<rendered, stored, dirty, app>>

\* the save effect of tab i
TabSaveEffect ==
  /\ \E i \in Tabs :
       /\ TabIsOpen(i)
       /\ TabDirty(i)
       /\ stored' = saveStore(TabBoard(i))
       /\ IF i = 1 THEN dirty' = FALSE /\ UNCHANGED tab2
          ELSE tab2' = [tab2 EXCEPT !.dirty = FALSE] /\ UNCHANGED dirty
  /\ UNCHANGED <<proto, board, editing, modalOpen, nextId, now, steps, last, prev>>
  /\ UNCHANGED <<rendered, app>>

\* + Add task in tab i
TabAddTask ==
  /\ nextId <= MaxTasks
  /\ \E i \in Tabs :
       /\ TabIsOpen(i)
       /\ SetTabBoard(i, addTask(TabBoard(i), AllIds[nextId], now))
  /\ nextId' = nextId + 1
  /\ RecordEvent("create", AllIds[nextId], UNDEF, NoPartial, MaxTabs)
  /\ UNCHANGED <<proto, editing, modalOpen, now>>
  /\ UNCHANGED <<rendered, stored, app>>

\* the delete control of a card of tab i
TabDeleteTask ==
  /\ \E i \in Tabs :
       /\ TabIsOpen(i)
       /\ \E id \in Rendered(TabBoard(i)) :
            /\ SetTabBoard(i, deleteTask(proto, TabBoard(i), id, TRUE, now))
            /\ Record("delete", id, UNDEF, MaxTabs)
  /\ UNCHANGED <<proto, editing, modalOpen, nextId, now>>
  /\ UNCHANGED <<rendered, stored, app>>

\* a card of tab i dropped on another column
TabDragEnd ==
  /\ \E i \in Tabs :
       /\ TabIsOpen(i)
       /\ \E active \in Rendered(TabBoard(i)) :
            \E over \in Columns \ {TabBoard(i).tasks[active].columnId} :
              /\ SetTabBoard(i, handleDragEnd(proto, TabBoard(i), active, over, now))
              /\ Record("drag", active, over, MaxTabs)
  /\ UNCHANGED <<proto, editing, modalOpen, nextId, now>>
  /\ UNCHANGED <<rendered, stored, app>>

NextTabs == OpenTab2 \/ TabSaveEffect \/ TabAddTask \/ TabDeleteTask \/ TabDragEnd

SpecTabs == InitTabs /\ [][NextTabs]_vars

\* ------------------------------------------------------------ properties
\* occurrences of x in s
Count(s, x) == Cardinality({i \in 1..Len(s) : s[i] = x})

\* the columns whose order list holds id
Holders(b, id) == {k \in DOMAIN b.order : Includes(b.order[k], id)}

\* task id is in column c: its record carries its id and says c, and it is listed
\* once, in order[c] only
InColumn(b, id, c) ==
  /\ id \in DOMAIN b.tasks
  /\ b.tasks[id].id = id
  /\ b.tasks[id].columnId = c
  /\ Holders(b, id) = {c}
  /\ Count(b.order[c], id) = 1

\* every task of the board is in the column its record names
Consistent(b) == \A id \in DOMAIN b.tasks : InColumn(b, id, b.tasks[id].columnId)

\* the last handled event was handleDragEnd(active = x, over = o)
Dragged(x, o) == last.op = "drag" /\ last.id = x /\ last.over = o

\* C1: after any sequence of create, edit, delete and drag events on existing
\* tasks, every task id is listed exactly once across all order lists, in the
\* list of the column recorded on the task.
C1_BoardConsistent == Consistent(board)

\* C2: a task X dropped on another task Y of its own column ends up exactly once
\* in that column, immediately before Y, the other tasks keeping their order.
C2_SameColumnInsertBefore ==
  \A c \in Columns : \A x, y \in DOMAIN prev.tasks :
    (x # y /\ Dragged(x, y) /\ InColumn(prev, x, c) /\ InColumn(prev, y, c))
      => /\ Count(board.order[c], x) = 1
         /\ IndexOf(board.order[c], x) + 1 = IndexOf(board.order[c], y)
         /\ Without(board.order[c], x) = Without(prev.order[c], x)

\* C3: a task X dropped on the container of its own column gives a pure reorder:
\* the column's list is the previous one with X moved to the end, no id twice.
C3_SameColumnDropOnColumn ==
  \A c \in Columns : \A x \in DOMAIN prev.tasks :
    (Dragged(x, c) /\ InColumn(prev, x, c))
      => /\ board.order[c] = Append(Without(prev.order[c], x), x)
         /\ \A id \in DOMAIN prev.tasks : Count(board.order[c], id) <= 1

C5_DropOnCardOfOtherColumn ==
  \A S, D \in Columns : \A x, y \in DOMAIN prev.tasks :
    (S # D /\ Dragged(x, y) /\ InColumn(prev, x, S) /\ InColumn(prev, y, D))
      => /\ board.order[S] = Without(prev.order[S], x)
         /\ board.order[D] = SpliceInsert(prev.order[D], IndexOf(prev.order[D], y), x)
         /\ board.tasks[x].columnId = D

\* C6: a task dropped onto itself leaves every order list and the task's column
\* field as they were.
C6_SelfDropKeepsStructure ==
  \A x \in DOMAIN prev.tasks :
    Dragged(x, x)
      => /\ board.order = prev.order
         /\ x \in DOMAIN board.tasks
         /\ board.tasks[x].columnId = prev.tasks[x].columnId

\* C7: a drag-end event whose active id is no key of board.tasks and is in no
\* order list leaves the board unchanged.
C7_UnknownDraggedIdRejected ==
  (last.op = "drag" /\ last.id \notin DOMAIN prev.tasks /\ Holders(prev, last.id) = {})
    => board = prev

\* C8: after a confirmed deleteTask(id) of a task of the board, id is no key of
\* board.tasks and occurs in no order list of any column.
C8_DeleteRemovesEveryTrace ==
  (last.op = "delete" /\ last.id \in DOMAIN prev.tasks)
    => /\ last.id \notin DOMAIN board.tasks
       /\ Holders(board, last.id) = {}

\* C9: saveTask on a task of the board keeps its id and createdAt, leaves every
\* order list unchanged and leaves the task's column field as the board had it
\* immediately before the save.
C9_EditDoesNotMove ==
  (last.op = "save" /\ last.id \in DOMAIN prev.tasks)
    => /\ last.id \in DOMAIN board.tasks
       /\ board.tasks[last.id].id = prev.tasks[last.id].id
       /\ board.tasks[last.id].createdAt = prev.tasks[last.id].createdAt
       /\ board.order = prev.order
       /\ board.tasks[last.id].columnId = prev.tasks[last.id].columnId

\* C10: saveTask with a task id that is no key of board.tasks adds or changes
\* no task and leaves board.tasks and board.order unchanged.
C10_UpdateOfMissingIdFails ==
  (last.op = "save" /\ last.id \notin DOMAIN prev.tasks)
    => /\ board.tasks = prev.tasks
       /\ board.order = prev.order

\* C12: deleteTask(id) for an id that is no key of board.tasks leaves the whole
\* board (tasks, order, ts) unchanged; so deleting an id a second time gives the
\* board the first delete gave.
C12_DeleteMissingIsNoOp ==
  /\ (last.op = "delete" /\ last.id \notin DOMAIN prev.tasks) => board = prev
  /\ last.op = "delete" => deleteTask(proto, board, last.id, TRUE, now) = board

\* a missing id was deleted on a board that has tasks, at a later time than the
\* board's ts
C12_Witness ==
  /\ last.op = "delete"
  /\ last.id \notin DOMAIN prev.tasks
  /\ DOMAIN prev.tasks # {}
  /\ now > prev.ts

\* C13: handleDragEnd with over = null leaves the board (tasks, order, every
\* updatedAt, ts) unchanged.
C13_CancelledDropIsNoOp ==
  (last.op = "drag" /\ last.over = NULL) => board = prev

\* a card of a board was released over nothing, at a later time than the
\* board's ts
C13_Witness ==
  /\ last.op = "drag"
  /\ last.over = NULL
  /\ last.id \in DOMAIN prev.tasks
  /\ now > prev.ts

\* the columns whose order list an event changed
ChangedColumns == {c \in DOMAIN prev.order : c \notin DOMAIN board.order \/ board.order[c] # prev.order[c]}

\* C19: handleDragEnd for an existing task X changes only X's record and the
\* order lists of X's source and destination columns: the keys of board.tasks
\* and every other record are unchanged, no other column's list changes, and
\* the ids other than X keep their relative order in every list.
C19_DragFrame ==
  \A x \in DOMAIN prev.tasks :
    (last.op = "drag" /\ last.id = x)
      => /\ DOMAIN board.tasks = DOMAIN prev.tasks
         /\ \A id \in DOMAIN prev.tasks \ {x} : board.tasks[id] = prev.tasks[id]
         /\ DOMAIN board.order = DOMAIN prev.order
         /\ \A c \in DOMAIN prev.order : Without(board.order[c], x) = Without(prev.order[c], x)
         /\ Cardinality(ChangedColumns) <= 2

\* a card of a board with three tasks was moved, at a later time than the other
\* records' updatedAt
C19_Witness ==
  \E x \in DOMAIN prev.tasks :
    /\ last.op = "drag" /\ last.id = x
    /\ Cardinality(DOMAIN prev.tasks) >= 3
    /\ Cardinality(ChangedColumns) = 2
    /\ \E id \in DOMAIN prev.tasks \ {x} : prev.tasks[id].updatedAt < now


\* C11: a create request (saveTask without an id in the modal prototypes, addTask
\* in the simplified one) adds exactly one new key to board.tasks, puts that id
\* first in order["todo"] with the previous elements following unchanged, gives
\* the task the column "todo", and priority "medium" and an empty description
\* when none was supplied; every other column's order and every other task
\* record stay as they were.
C11_CreateAddsOneAtHead ==
  last.op = "create" =>
    /\ last.id \notin DOMAIN prev.tasks
    /\ DOMAIN board.tasks = DOMAIN prev.tasks \cup {last.id}
    /\ board.tasks[last.id].id = last.id
    /\ board.order["todo"] = <<last.id>> \o prev.order["todo"]
    /\ board.tasks[last.id].columnId = "todo"
    /\ last.typed.priority \in {UNTOUCHED, UNDEF} => board.tasks[last.id].priority = "medium"
    /\ last.typed.description \in {UNTOUCHED, UNDEF} => board.tasks[last.id].description = ""
    /\ DOMAIN board.order = DOMAIN prev.order
    /\ \A c \in DOMAIN prev.order \ {"todo"} : board.order[c] = prev.order[c]
    /\ \A x \in DOMAIN prev.tasks : board.tasks[x] = prev.tasks[x]

\* a task created with nothing but a title typed, on a board that already has a
\* task in To do and one elsewhere
C11_Witness ==
  /\ last.op = "create"
  /\ last.typed.priority \in {UNTOUCHED, UNDEF}
  /\ last.typed.description \in {UNTOUCHED, UNDEF}
  /\ prev.order["todo"] # <<>>
  /\ \E c \in Columns \ {"todo"} : prev.order[c] # <<>>
  /\ Len(board.order["todo"]) = Len(prev.order["todo"]) + 1


\* the title of the create or edit request just handled: what the modal's title
\* field held at submit, or what addTask handed to newTask
RequestTitle ==
  IF proto = "simplified" THEN last.typed.title ELSE FormAfter(editing, last.typed).title

Blank(title) == title = UNDEF \/ Trim(title) = ""

IsRequest == last.op \in {"create", "save", "rejected"}

Applied ==
  CASE last.op = "create" ->
         IF proto = "simplified" THEN addTask(prev, last.id, board.ts)
         ELSE saveTask(prev, SubmittedTask(NoEditing, FormAfter(NoEditing, last.typed)),
                       last.id, board.ts)
    [] last.op = "delete" -> deleteTask(proto, prev, last.id, TRUE, board.ts)
    [] last.op = "drag" -> handleDragEnd(proto, prev, last.id, last.over, board.ts)
    [] OTHER -> board

\* C14: mutations are serialized: after any sequence of events, two handled
\* before a re-render included, the board is the result of applying the last
\* event to the board the preceding event produced, and every task an earlier
\* create put on the board is still there unless the event deleted it.
C14_MutationsSerialized ==
  /\ board = Applied
  /\ last.op \in {"create", "drag"} => DOMAIN prev.tasks \subseteq DOMAIN board.tasks


\* C16: for every stored payload that is not a valid board (no key, text that
\* is not JSON, JSON without the columns/tasks/order shape) the page starts, and
\* starts on a fresh emptyBoard() with the three columns present and empty.
C16_LoadFallback ==
  (last.op = "init" /\ last.over \in InvalidKinds) =>
    /\ app = "running"
    /\ board = emptyBoard(board.ts)
    /\ DOMAIN board.order = Columns

\* the event just handled is one that stops before setBoard
NoOpHandled ==
  /\ steps' = steps + 1
  /\ \/ last'.op = "drag" /\ last'.over = NULL
     \/ last'.op = "delete" /\ last'.id \notin DOMAIN board.tasks

\* storage holds the JSON of the current board
Written == stored.kind = "board" /\ stored.board = board

\* C17: once the save effect has run the stored payload is the current board,
\* after every event that changed the board the effect does run, and an event
\* that is a no-op (a drop on nothing, the delete of a missing id) neither
\* writes nor schedules a write.  Storage is read by InitStore alone: no action
\* of NextStore reads stored.
C17_WriteBack ==
  /\ [](app = "running" /\ ~dirty => Written)
  /\ [][NoOpHandled => UNCHANGED <<stored, dirty>>]_vars
  /\ [](dirty => <>(~dirty /\ Written))

\* after a drag that moved a card and a later save, storage holds the moved board
C17_Witness ==
  /\ last.op = "drag"
  /\ last.over # NULL
  /\ board # prev
  /\ ~dirty
  /\ Written
  /\ Cardinality(DOMAIN board.tasks) >= 2


\* both tabs are open and neither has a write-back pending
TabsQuiet == tab2.open /\ ~dirty /\ ~tab2.dirty

\* C15: with two tabs of the simplified prototype open on the same storage, a
\* mutation made in one tab becomes visible in the other tab's board, and no
\* write-back discards a mutation of the other tab: once nothing is pending,
\* the two boards and the stored board hold the same tasks in the same order.
C15_TabsInSync ==
  TabsQuiet =>
    /\ tab2.board.tasks = board.tasks
    /\ tab2.board.order = board.order
    /\ stored.board.tasks = board.tasks
    /\ stored.board.order = board.order

====
